---- MODULE Spec2Model ----
(***************************************************************************)
(* nu_plugin_unity: the `unity` filter of src/main.rs.                     *)
(*                                                                         *)
(* Text is modelled as a sequence of tokens.  Every token stands for the   *)
(* literal string that names it, so a text is the concatenation of its     *)
(* tokens.  The token set is prefix-free and no pattern the program looks  *)
(* for ("\r\n", "\r", "\n\n", "\n", "UnityEngine.Debug:Log", "Debug",      *)
(* "Log", "Error", "Warning", white space) can start or end inside a       *)
(* token, so matching, splitting and comparing on tokens is matching,      *)
(* splitting and comparing on the characters.                              *)
(***************************************************************************)
EXTENDS Integers, Sequences, FiniteSets, TLC

VARIABLES args, value, pc, count, no_collapse, fallback, lines, rows

vars == <<args, value, pc, count, no_collapse, fallback, lines, rows>>

----------------------------------------------------------------------------
(* Tokens *)

LF == "\n"
CR == "\r"
SP == " "

\* The tokens in the byte order of the strings they stand for.
TokenOrder ==
    <<LF, CR, SP, "(String)", ":", "Debug", "Error", "Foo.Bar()", "Hello",
      "Log", "UnityEngine.", "Warning", "World", "at", "x">>

Rank(t) == CHOOSE i \in 1..Len(TokenOrder) : TokenOrder[i] = t

LOG_KEYWORD == <<"UnityEngine.", "Debug", ":", "Log">>
EMPTY_NEWLINE == <<LF, LF>>

----------------------------------------------------------------------------
(* str methods of the standard library, as main.rs uses them *)

Drop(s, n) == SubSeq(s, n + 1, Len(s))
Take(s, n) == SubSeq(s, 1, IF n < Len(s) THEN n ELSE Len(s))

IsAt(s, pat, i) ==
    /\ i >= 1
    /\ i + Len(pat) - 1 <= Len(s)
    /\ SubSeq(s, i, i + Len(pat) - 1) = pat

Matches(s, pat) == {i \in 1..Len(s) : IsAt(s, pat, i)}


\* str::find, 0 for None: the first match at or after position i
RECURSIVE find_from(_, _, _)
find_from(s, pat, i) ==
    IF i + Len(pat) - 1 > Len(s) THEN 0
    ELSE IF IsAt(s, pat, i) THEN i
    ELSE find_from(s, pat, i + 1)

find(s, pat) == find_from(s, pat, 1)

\* str::contains
contains(s, pat) == find(s, pat) # 0

\* str::starts_with
starts_with(s, pat) == IsAt(s, pat, 1)

\* str::replace: every non-overlapping match, left to right
RECURSIVE replace(_, _, _)
replace(s, from, to) ==
    IF s = <<>> THEN <<>>
    ELSE IF starts_with(s, from)
         THEN to \o replace(Drop(s, Len(from)), from, to)
         ELSE <<Head(s)>> \o replace(Tail(s), from, to)

\* str::split
RECURSIVE split(_, _)
split(s, sep) ==
    LET i == find(s, sep) IN
    IF i = 0 THEN <<s>>
    ELSE <<SubSeq(s, 1, i - 1)>> \o split(Drop(s, i + Len(sep) - 1), sep)

\* str::split_terminator: split, without a final empty piece
split_terminator(s, sep) ==
    LET p == split(s, sep) IN
    IF p[Len(p)] = <<>> THEN SubSeq(p, 1, Len(p) - 1) ELSE p

\* str::split_once('\n'): <<>> for None, <<(before, after)>> for Some
split_once(s) ==
    LET i == find(s, <<LF>>) IN
    IF i = 0 THEN <<>>
    ELSE << <<SubSeq(s, 1, i - 1), Drop(s, i)>> >>

\* str::lines: the text this program hands it holds no "\r" (sanitized)
str_lines(s) == split_terminator(s, <<LF>>)

\* str::trim_start_matches: the pattern is removed while it is a prefix
RECURSIVE trim_start_matches(_, _)
trim_start_matches(s, pat) ==
    IF starts_with(s, pat) THEN trim_start_matches(Drop(s, Len(pat)), pat)
    ELSE s

IsWhite(t) == t \in {LF, CR, SP}

RECURSIVE trim_start(_)
trim_start(s) ==
    IF s # <<>> /\ IsWhite(Head(s)) THEN trim_start(Tail(s)) ELSE s

RECURSIVE trim_end(_)
trim_end(s) ==
    IF s # <<>> /\ IsWhite(s[Len(s)]) THEN trim_end(SubSeq(s, 1, Len(s) - 1))
    ELSE s

\* str::trim
trim(s) == trim_end(trim_start(s))

\* Ord for str: lexicographic on bytes
RECURSIVE str_less(_, _)
str_less(a, b) ==
    IF b = <<>> THEN FALSE
    ELSE IF a = <<>> THEN TRUE
    ELSE IF Head(a) = Head(b) THEN str_less(Tail(a), Tail(b))
    ELSE Rank(Head(a)) < Rank(Head(b))

RECURSIVE Flatten(_)
Flatten(ss) == IF ss = <<>> THEN <<>> ELSE Head(ss) \o Flatten(Tail(ss))

----------------------------------------------------------------------------
(* UnityLog::len *)

\* line 65-66
sanitize(s) == replace(replace(s, <<CR, LF>>, <<LF>>), <<CR>>, <<LF>>)

\* line 69, 111
blocks(input) == split_terminator(input, EMPTY_NEWLINE)

\* rfind, were it to look for the first keyword of the block (str::find)
rfind_first(block) == find(block, LOG_KEYWORD)

\* line 72: block.rfind(LOG_KEYWORD), 0 for None
rfind(block) ==
    IF Matches(block, LOG_KEYWORD) = {} THEN 0
    ELSE CHOOSE i \in Matches(block, LOG_KEYWORD) :
            \A j \in Matches(block, LOG_KEYWORD) : j <= i

\* line 73: the part of the block from the last keyword on
bottom_of(block) == Drop(block, rfind(block) - 1)

\* trimmed_of, were it to drop the first line of every user log
trimmed_always(user_log) ==
    LET rest == split_once(user_log) IN
    IF rest = <<>> THEN <<>> ELSE rest[1][2]

\* line 76-84
trimmed_of(user_log) ==
    LET ls == str_lines(user_log)
        custom_method == IF ls = <<>> THEN <<>> ELSE ls[1]
        rest == split_once(user_log)
    IN  IF contains(custom_method, <<"Debug">>) \/ contains(custom_method, <<"Log">>)
        THEN IF rest = <<>> THEN user_log ELSE rest[1][2]
        ELSE user_log

\* line 86-94
log_type_of(bottom) ==
    LET type_line == trim_start_matches(bottom, LOG_KEYWORD) IN
    IF starts_with(type_line, <<"Error">>) THEN "Error"
    ELSE IF starts_with(type_line, <<"Warning">>) THEN "Warning"
    ELSE "Log"

\* message_of, were it to take the first line of the user log
message_of_user_log(block) ==
    LET parts == split_once(bottom_of(block))
        ls == IF parts = <<>> THEN <<>> ELSE str_lines(parts[1][2])
    IN  IF ls = <<>> THEN <<>> ELSE ls[1]

\* line 99: block.lines().next().unwrap_or("")
message_of(block) ==
    LET ls == str_lines(block) IN IF ls = <<>> THEN <<>> ELSE ls[1]

\* line 71-103: the closure of the primary pass, <<>> for None
parse_block(block) ==
    IF rfind(block) = 0 THEN <<>>
    ELSE LET bottom == bottom_of(block)
             parts == split_once(bottom)
         IN  IF parts = <<>> THEN <<>>
             ELSE LET user_log == parts[1][2] IN
              << [log_type |-> log_type_of(bottom),
                  message |-> message_of(block),
                  callstack |-> block,
                  trimmed_callstack |-> trimmed_of(user_log)] >>

\* line 112-119: the closure of the fallback pass, <<>> for None
parse_player_block(block) ==
    LET ls == str_lines(block)
        parts == split_once(block)
    IN  IF ls = <<>> THEN <<>>
        ELSE IF parts = <<>> THEN <<>>
        ELSE << [log_type |-> "Unknown",
                 message |-> ls[1],
                 callstack |-> block,
                 trimmed_callstack |-> parts[1][2]] >>

\* line 68-105
RECURSIVE primary_pass(_)
primary_pass(bs) ==
    IF bs = <<>> THEN <<>>
    ELSE (IF contains(Head(bs), LOG_KEYWORD) THEN parse_block(Head(bs)) ELSE <<>>)
         \o primary_pass(Tail(bs))

\* line 110-121
RECURSIVE fallback_pass(_)
fallback_pass(bs) ==
    IF bs = <<>> THEN <<>>
    ELSE parse_player_block(Head(bs)) \o fallback_pass(Tail(bs))

\* line 68-122: whether the fallback pass ran (line 109), and the entries
extraction(input) ==
    LET bs == blocks(input)
        found == primary_pass(bs)
    IN  IF found = <<>> THEN [fallback |-> TRUE, lines |-> fallback_pass(bs)]
        ELSE [fallback |-> FALSE, lines |-> found]

\* line 33-37
same(a, b) == a.log_type = b.log_type /\ a.message = b.message

\* line 125: Vec::sort_by_key(|x| x.message), a stable sort
RECURSIVE insert_sorted(_, _)
insert_sorted(sorted, x) ==
    IF sorted = <<>> THEN <<x>>
    ELSE IF str_less(x.message, sorted[Len(sorted)].message)
         THEN insert_sorted(SubSeq(sorted, 1, Len(sorted) - 1), x)
              \o <<sorted[Len(sorted)]>>
         ELSE Append(sorted, x)

RECURSIVE sort_by_key(_)
sort_by_key(v) ==
    IF v = <<>> THEN <<>>
    ELSE insert_sorted(sort_by_key(SubSeq(v, 1, Len(v) - 1)), v[Len(v)])

\* line 126: Vec::dedup_by(|a, b| a.same(b)): a is dropped when it is the
\* same as b, the last element kept before it
RECURSIVE dedup_by(_)
dedup_by(v) ==
    IF v = <<>> THEN <<>>
    ELSE LET kept == dedup_by(SubSeq(v, 1, Len(v) - 1)) IN
         IF kept # <<>> /\ same(v[Len(v)], kept[Len(kept)]) THEN kept
         ELSE Append(kept, v[Len(v)])

\* line 124-127
collapsed(v, flag) == IF flag THEN dedup_by(sort_by_key(v)) ELSE v

\* line 148-149: map(|x| x.trim().to_string()).collect()
RECURSIVE concat_trimmed(_)
concat_trimmed(ls) ==
    IF ls = <<>> THEN <<>> ELSE trim(Head(ls)) \o concat_trimmed(Tail(ls))

\* truncated, were it to take one line more than count
truncated_one_more(trimmed_callstack, n) ==
    concat_trimmed(Take(str_lines(trimmed_callstack), n + 1))

\* line 144-149: lines().take(count).map(trim).collect()
truncated(trimmed_callstack, n) ==
    concat_trimmed(Take(str_lines(trimmed_callstack), n))

\* line 131-163: the dictionary always holds its three fields
row_of(line, n) ==
    [type |-> line.log_type,
     message |-> line.message,
     short |-> truncated(line.trimmed_callstack, n)]

\* line 129-164
to_rows(v, n) == [i \in 1..Len(v) |-> row_of(v[i], n)]

----------------------------------------------------------------------------
(* Inputs *)

MaxLen == 4
MaxBlocks == 2
MaxCount == 2

M == LOG_KEYWORD

\* Short texts: every sequence of at most MaxLen pieces of one alphabet.
SeverityPieces == {M, <<"Error">>, <<"Warning">>, <<LF>>, <<"x">>}
WrapperPieces == {M, <<"Log">>, <<LF>>, <<SP>>, <<"x">>}
PlayerPieces == {<<LF>>, <<CR>>, <<SP>>, <<"x">>}

TextsOver(pieces) ==
    {Flatten(p) : p \in UNION {[1..n -> pieces] : n \in 0..MaxLen}}

ShortTexts ==
    TextsOver(SeverityPieces) \cup TextsOver(WrapperPieces) \cup TextsOver(PlayerPieces)

\* Documents: at most MaxBlocks blocks, each followed by a separator.
Entries ==
    {<<"x", LF>> \o M \o <<"(String)", LF, "at", SP, "x">>,
     <<"x", LF>> \o M \o <<"(String)", LF, SP, "x", SP, LF, "at", LF, "x">>,
     <<"x", LF>> \o M \o <<"Error", LF, "at", SP, "x">>,
     <<"x", LF>> \o M,
     <<"Hello", SP, "World", LF, SP, "at", SP, LF, "x">>}

Separators == {<<LF, LF>>, <<CR, LF, CR, LF, LF>>}

Documents ==
    {Flatten(d) : d \in UNION {[1..n -> {e \o s : e \in Entries, s \in Separators}] :
                                  n \in 1..MaxBlocks}}

\* The texts the repository's specification names.
HelloWorld ==
    M \o <<"(String)", LF, "Hello", SP, "World", LF, SP, SP, "at", SP, "Foo.Bar()",
           LF, LF, LF>>

HelloError ==
    M \o <<"Error", "(String)", LF, "Error", ":", SP, "Hello", SP, "Error", LF, SP, SP,
           "at", SP, "Foo.Bar()", LF, LF, LF>>

Alternating ==
    <<"x", LF>> \o M \o <<LF, "at", LF, LF>>
    \o <<"x", LF>> \o M \o <<"Error", LF, "at", LF, LF>>
    \o <<"x", LF>> \o M \o <<LF, "at", LF, LF>>

Scenarios == {HelloWorld, HelloError, Alternating, <<>>}

Texts == ShortTexts \cup Documents \cup Scenarios

\* A value of the input stream: a string, or something else.
Values == {[is_string |-> TRUE, s |-> t] : t \in Texts}
          \cup {[is_string |-> FALSE, s |-> <<>>]}

\* The named arguments of a call: -1 stands for an argument not given.
Absent == -1
Args == [count : {Absent} \cup 0..MaxCount, no_collapse : {Absent, 1}]

----------------------------------------------------------------------------
(* The plugin *)

\* line 44-58, 216: UnityLog::new(), and the call and the value in flight
Init ==
    /\ args \in Args
    /\ value \in Values
    /\ pc = "new"
    /\ count = 3
    /\ no_collapse = FALSE
    /\ fallback = FALSE
    /\ lines = <<>>
    /\ rows = <<>>

\* line 195-207
begin_filter ==
    /\ pc = "new"
    /\ count' = IF args.count = Absent THEN count ELSE args.count
    /\ no_collapse' = IF args.no_collapse = Absent THEN no_collapse ELSE TRUE
    /\ pc' = "ready"
    /\ UNCHANGED <<args, value, fallback, lines, rows>>

\* line 209-212 and 60-174
filter ==
    /\ pc = "ready"
    /\ IF value.is_string
       THEN LET input == sanitize(value.s)
                ex == extraction(input)
                v == collapsed(ex.lines, no_collapse)
            IN  /\ fallback' = ex.fallback
                /\ lines' = v
                /\ rows' = to_rows(v, count)
                /\ pc' = "done"
       ELSE /\ pc' = "error"
            /\ UNCHANGED <<fallback, lines, rows>>
    /\ UNCHANGED <<args, value, count, no_collapse>>

Next == begin_filter \/ filter

Spec == Init /\ [][Next]_vars

TypeOK ==
    /\ pc \in {"new", "ready", "done", "error"}
    /\ count \in Nat
    /\ no_collapse \in BOOLEAN
    /\ fallback \in BOOLEAN
    /\ Len(rows) = Len(lines)

----------------------------------------------------------------------------
(* What the properties below are stated with *)

Done == pc = "done"

DefaultOptions == args.count = Absent /\ args.no_collapse = Absent

\* The normalized text of the value, and its blocks
Normalized == sanitize(value.s)
Blocks == blocks(Normalized)

HasKeyword(b) == \E i \in 1..Len(b) : IsAt(b, LOG_KEYWORD, i)

\* The position of the last keyword of a block that has one
LastKeyword(b) ==
    CHOOSE i \in 1..Len(b) :
        IsAt(b, LOG_KEYWORD, i) /\ \A j \in (i + 1)..Len(b) : ~IsAt(b, LOG_KEYWORD, j)

AfterKeyword(b, i) == SubSeq(b, i + Len(LOG_KEYWORD), Len(b))

NewLines(s) == {i \in 1..Len(s) : s[i] = LF}

NthNewLine(s, k) ==
    CHOOSE i \in NewLines(s) : Cardinality({j \in NewLines(s) : j <= i}) = k

\* The text before and after the first newline
BeforeNewLine(s) ==
    IF NewLines(s) = {} THEN s ELSE SubSeq(s, 1, NthNewLine(s, 1) - 1)
AfterNewLine(s) ==
    IF NewLines(s) = {} THEN <<>> ELSE SubSeq(s, NthNewLine(s, 1) + 1, Len(s))

\* The lines of a text: a final newline ends the last line
LineCount(s) ==
    IF s = <<>> THEN 0
    ELSE Cardinality(NewLines(s)) + (IF s[Len(s)] = LF THEN 0 ELSE 1)

Line(s, k) ==
    SubSeq(s,
           IF k = 1 THEN 1 ELSE NthNewLine(s, k - 1) + 1,
           IF k <= Cardinality(NewLines(s)) THEN NthNewLine(s, k) - 1 ELSE Len(s))

Stripped(l) ==
    LET ink == {i \in 1..Len(l) : l[i] \notin {SP, LF, CR}} IN
    IF ink = {} THEN <<>>
    ELSE SubSeq(l, CHOOSE i \in ink : \A j \in ink : i <= j,
                   CHOOSE i \in ink : \A j \in ink : j <= i)

\* The first k lines, each stripped, run together
RECURSIVE Joined(_, _)
Joined(s, k) == IF k = 0 THEN <<>> ELSE Joined(s, k - 1) \o Stripped(Line(s, k))

Smaller(a, b) == IF a < b THEN a ELSE b

\* The severity the text after the keyword stands for
SeverityOf(t) ==
    IF t # <<>> /\ t[1] = "Error" THEN "Error"
    ELSE IF t # <<>> /\ t[1] = "Warning" THEN "Warning"
    ELSE "Log"

\* The user-log region of a block: the text after the first newline that
\* follows the last keyword
UserLog(b) == AfterNewLine(SubSeq(b, LastKeyword(b), Len(b)))

NamesWrapper(l) == \E i \in 1..Len(l) : l[i] \in {"Debug", "Log"}

----------------------------------------------------------------------------
(* C1 *)

\* C1: with default options, two blocks that both carry the keyword and are
\* retained, with the same first line and the same severity but different
\* call stacks, yield exactly one record.
C1_DefaultCollapsesSameMessage ==
    (/\ Done
     /\ DefaultOptions
     /\ Len(Blocks) = 2
     /\ \A i \in 1..2 : HasKeyword(Blocks[i]) /\ NewLines(SubSeq(Blocks[i], LastKeyword(Blocks[i]), Len(Blocks[i]))) # {}
     /\ BeforeNewLine(Blocks[1]) = BeforeNewLine(Blocks[2])
     /\ SeverityOf(AfterKeyword(Blocks[1], LastKeyword(Blocks[1])))
          = SeverityOf(AfterKeyword(Blocks[2], LastKeyword(Blocks[2])))
     /\ Blocks[1] # Blocks[2])
    => Len(rows) = 1

----------------------------------------------------------------------------
(* C2 *)

\* C2: when collapsing is enabled (the no-collapse switch is not given), no
\* two records of the output have the same type and message.
C2_CollapsedOutputHasNoDuplicates ==
    (Done /\ args.no_collapse = Absent)
    => \A i, j \in 1..Len(rows) :
          (i < j) => ~(rows[i].type = rows[j].type /\ rows[i].message = rows[j].message)

----------------------------------------------------------------------------
(* C3 *)

\* C3: when the no-collapse switch is given, the records are those of the
\* blocks that survived extraction, in document order, none sorted or removed.
C3_NoCollapseKeepsEveryEntry ==
    (Done /\ args.no_collapse = 1)
    => rows = to_rows(extraction(Normalized).lines, count)

----------------------------------------------------------------------------
(* C4 *)

\* C4: the fallback pass runs exactly when no block holds the keyword, and a
\* text with a keyword in it yields no Unknown record.
C4_FallbackIffNoKeyword ==
    Done =>
      /\ fallback <=> (\A i \in 1..Len(Blocks) : ~HasKeyword(Blocks[i]))
      /\ (\E i \in 1..Len(Blocks) : HasKeyword(Blocks[i]))
            => \A k \in 1..Len(rows) : rows[k].type # "Unknown"

----------------------------------------------------------------------------
(* C5 *)

\* C5, as stated: for the Hello World text and default options the output is
\* one record of type Log with message "Hello World", and its short does not
\* contain "Hello World".
C5_HelloWorldAsStated ==
    (Done /\ value.s = HelloWorld /\ DefaultOptions)
    => /\ Len(rows) = 1
       /\ rows[1].type = "Log"
       /\ rows[1].message = <<"Hello", SP, "World">>
       /\ \A i \in 1..Len(rows[1].short) : ~IsAt(rows[1].short, <<"Hello", SP, "World">>, i)

\* C5, amended: for the Hello World text and default options the output is
\* one record of type Log whose message is the first line of the block,
\* "UnityEngine.Debug:Log(String)", and whose short is the two lines after
\* it, stripped and run together: "Hello Worldat Foo.Bar()".
C5_HelloWorld ==
    (Done /\ value.s = HelloWorld /\ DefaultOptions)
    => rows = << [type |-> "Log",
                  message |-> <<"UnityEngine.", "Debug", ":", "Log", "(String)">>,
                  short |-> <<"Hello", SP, "World", "at", SP, "Foo.Bar()">>] >>

C5_Witness == Done /\ value.s = HelloWorld /\ DefaultOptions /\ Len(rows) = 1

----------------------------------------------------------------------------
(* C6 *)

\* C6: an entry of the primary pass has the severity that the text right
\* after the last keyword of its block stands for (Error, else Warning, else
\* Log), whatever follows an earlier keyword; Unknown is the severity of
\* entries of the fallback pass only.
C6_SeverityFromLastKeyword ==
    Done =>
      \A k \in 1..Len(lines) :
        LET e == lines[k]
            b == e.callstack
        IN  /\ rows[k].type = e.log_type
            /\ (e.log_type = "Unknown") <=> fallback
            /\ ~fallback =>
                 /\ HasKeyword(b)
                 /\ e.log_type = SeverityOf(AfterKeyword(b, LastKeyword(b)))

C6_Witness ==
    /\ Done
    /\ ~fallback
    /\ \E k \in 1..Len(lines) :
          LET b == lines[k].callstack IN
          /\ \E i \in 1..Len(b) :
                /\ IsAt(b, LOG_KEYWORD, i)
                /\ i < LastKeyword(b)
                /\ SeverityOf(AfterKeyword(b, i)) = "Error"
          /\ rows[k].type = "Log"

----------------------------------------------------------------------------
(* C7 *)

\* C7: when the first line of the user-log region holds "Debug" or "Log",
\* trimmed_callstack is the region without that line (empty when the region
\* is that single line); otherwise it is the region.
C7_WrapperLineDropped ==
    (Done /\ ~fallback) =>
      \A k \in 1..Len(lines) :
        LET u == UserLog(lines[k].callstack) IN
        lines[k].trimmed_callstack =
            IF NamesWrapper(BeforeNewLine(u)) THEN AfterNewLine(u) ELSE u

----------------------------------------------------------------------------
(* C8 *)

\* C8: for a text without the keyword, the output is one Unknown record for
\* each block of at least two lines, and nothing for any other block (stated
\* for calls without the no-collapse switch, where the program neither sorts
\* nor removes entries).
C8_FallbackKeepsBlocksOfTwoLines ==
    (Done /\ args.no_collapse = Absent /\ ~HasKeyword(Normalized))
    => /\ Len(rows) = Cardinality({i \in 1..Len(Blocks) : LineCount(Blocks[i]) >= 2})
       /\ \A k \in 1..Len(rows) : rows[k].type = "Unknown"

----------------------------------------------------------------------------
(* C9 *)

\* C9: the callstack of every entry is a block of the normalized text, and
\* its message is the first line of that block: it holds no newline and the
\* block is the message alone or the message, a newline and more.
C9_MessageIsFirstLine ==
    Done =>
      \A k \in 1..Len(lines) :
        LET m == lines[k].message
            c == lines[k].callstack
        IN  /\ \E i \in 1..Len(Blocks) : Blocks[i] = c
            /\ rows[k].message = m
            /\ NewLines(m) = {}
            /\ Len(m) <= Len(c)
            /\ SubSeq(c, 1, Len(m)) = m
            /\ Len(c) > Len(m) => c[Len(m) + 1] = LF

C9_Witness ==
    /\ Done
    /\ \E k \in 1..Len(lines) :
          /\ lines[k].log_type # "Unknown"
          /\ Len(lines[k].message) > 0
          /\ ~HasKeyword(lines[k].message)
          /\ Len(lines[k].callstack) > Len(lines[k].message)

----------------------------------------------------------------------------
(* C10 *)

\* C10: the short of every record is the first min(count, number of lines)
\* lines of trimmed_callstack, each stripped of white space, run together
\* with nothing between; it is empty when trimmed_callstack is empty.
C10_ShortIsFirstLines ==
    Done =>
      \A k \in 1..Len(lines) :
        LET t == lines[k].trimmed_callstack IN
        /\ rows[k].short = Joined(t, Smaller(count, LineCount(t)))
        /\ (t = <<>>) => rows[k].short = <<>>

C10_Witness ==
    /\ Done
    /\ count > 0
    /\ \E k \in 1..Len(lines) :
          LET t == lines[k].trimmed_callstack IN
          /\ LineCount(t) > count
          /\ Stripped(Line(t, 1)) # Line(t, 1)
          /\ Stripped(Line(t, count + 1)) # <<>>
          /\ rows[k].short # <<>>
====
